---- MODULE Spec2Model ----
(* A model of etl.py: a two-stage batch job that reads song and log JSON     *)
(* records, runs five SQL queries on them and overwrites five output tables. *)
(*                                                                           *)
(* Tables are bags (multisets) of rows.  A cell is <<>> for SQL NULL and     *)
(* <<v>> for the value v.  A JSON record is a function from the field names  *)
(* it carries to cells; the schema of a data frame is inferred from the      *)
(* records read, and a field a record lacks is NULL in its row.              *)
EXTENDS Integers, Sequences, FiniteSets, Bags, TLC

VARIABLES
    song_data,          \* the records under input_data + 'song_data/*/*/*/*.json'
    log_data,           \* the records under input_data + 'log_data/*.json'
    songs_table,        \* output_data + 'songs_table/'
    artists_table,      \* output_data + 'artists_table/'
    users_table,        \* output_data + 'users_table/'
    time_table,         \* output_data + 'time_table/'
    songplays_table,    \* output_data + 'songplays_table/'
    song_data_table,    \* the session's temp view "song_data_table"
    log_data_table,     \* the session's temp view "log_data_table"
    song_df,            \* the local song_df of process_log_data
    pc,                 \* the statement main() is about to execute
    error,              \* the exception that ended the run, "none" while there is none
    failed_at,          \* the statement that raised it
    written,            \* the tables this run has overwritten so far
    before,             \* the five tables as they were when this run started
    rerun,              \* TRUE in the second run of the pipeline
    first               \* the outcome of the first run, kept for the second

vars == <<song_data, log_data, songs_table, artists_table, users_table,
          time_table, songplays_table, song_data_table, log_data_table,
          song_df, pc, error, failed_at, written, before, rerun, first>>

-----------------------------------------------------------------------------
(* Bounds of the model *)

MaxSongRecords == 2
MaxLogRecords == 2

-----------------------------------------------------------------------------
(* Cells, rows and bags *)

NULL == <<>>

RECURSIVE BagsUpTo(_, _)
BagsUpTo(S, n) ==
    IF n = 0 THEN {EmptyBag}
    ELSE LET smaller == BagsUpTo(S, n - 1)
         IN  smaller \cup {b (+) SetToBag({r}) : b \in smaller, r \in S}

\* WHERE: the rows of B that are in the set keep, each with its multiplicity
Where(B, keep) == [r \in BagToSet(B) \cap keep |-> B[r]]

\* a DISTINCT that is lost: every copy of every row is kept
DistinctKeepsAll(B) == B

\* SELECT DISTINCT: one copy of every row
Distinct(B) == SetToBag(BagToSet(B))

\* a data frame with no columns and no rows: a view not yet created
NoFrame == [cols |-> {}, rows |-> EmptyBag]

\* spark.read.json: the schema is the union of the fields present, and every
\* record becomes a row over that schema, NULL where the record has no field
read_json(files) ==
    LET cols == UNION {DOMAIN r : r \in BagToSet(files)}
        Row(r) == [c \in cols |-> IF c \in DOMAIN r THEN r[c] ELSE NULL]
    IN  [cols |-> cols, rows |-> BagOfAll(Row, files)]

\* mode('append') in place of mode('overwrite')
OverwriteAppends(old, new) == old (+) new

\* mode('overwrite'): the new content replaces whatever the path held
Overwrite(old, new) == new

-----------------------------------------------------------------------------
(* Timestamps.  The epoch-millisecond ts of a log record is held as the     *)
(* pair s, ms with ts = 1000 * s + ms, since 1541106106796 exceeds the      *)
(* integers TLC computes with.                                              *)

\* to_timestamp(ts/1000): seconds since the epoch and the microseconds left
\* (a SQL function of a NULL is NULL)
to_timestamp(ts) ==
    IF ts = NULL THEN NULL ELSE <<[s |-> ts[1].s, us |-> ts[1].ms * 1000]>>

\* the day number of the timestamp cell t
EpochDay(t) == t[1].s \div 86400

\* the proleptic Gregorian date of a day number (days since 1970-01-01)
CivilFromDays(z0) ==
    LET z   == z0 + 719468
        era == z \div 146097
        doe == z - era * 146097
        yoe == (doe - doe \div 1460 + doe \div 36524 - doe \div 146096) \div 365
        doy == doe - (365 * yoe + yoe \div 4 - yoe \div 100)
        mp  == (5 * doy + 2) \div 153
        d   == doy - (153 * mp + 2) \div 5 + 1
        m   == IF mp < 10 THEN mp + 3 ELSE mp - 9
        y   == yoe + era * 400 + (IF m <= 2 THEN 1 ELSE 0)
    IN  [y |-> y, m |-> m, d |-> d]

\* the day number of a date
DaysFromCivil(y0, m, d) ==
    LET y   == IF m <= 2 THEN y0 - 1 ELSE y0
        era == y \div 400
        yoe == y - era * 400
        doy == (153 * (IF m > 2 THEN m - 3 ELSE m + 9) + 2) \div 5 + d - 1
        doe == yoe * 365 + yoe \div 4 - yoe \div 100 + doy
    IN  era * 146097 + doe - 719468

year(t) == IF t = NULL THEN NULL ELSE <<CivilFromDays(EpochDay(t)).y>>
month(t) == IF t = NULL THEN NULL ELSE <<CivilFromDays(EpochDay(t)).m>>
dayofmonth(t) == IF t = NULL THEN NULL ELSE <<CivilFromDays(EpochDay(t)).d>>
hour(t) == IF t = NULL THEN NULL ELSE <<(t[1].s % 86400) \div 3600>>

\* dayofweek: 1 = Sunday ... 7 = Saturday (1970-01-01 was a Thursday)
dayofweek(t) == IF t = NULL THEN NULL ELSE <<((EpochDay(t) + 4) % 7) + 1>>

\* weekofyear: the ISO 8601 week, weeks starting on Monday, week 1 holding
\* the year's first Thursday
IsoWeekday(day) == ((day + 3) % 7) + 1
WeeksInYear(y) ==
    LET jan1 == IsoWeekday(DaysFromCivil(y, 1, 1))
        leap == (y % 4 = 0 /\ y % 100 # 0) \/ y % 400 = 0
    IN  IF jan1 = 4 \/ (leap /\ jan1 = 3) THEN 53 ELSE 52
weekofyear(t) ==
    LET day == EpochDay(t)
        y   == CivilFromDays(day).y
        yd  == day - DaysFromCivil(y, 1, 1) + 1
        w   == (yd - IsoWeekday(day) + 10) \div 7
    IN  IF t = NULL THEN NULL
        ELSE IF w < 1 THEN <<WeeksInYear(y - 1)>>
        ELSE IF w > WeeksInYear(y) THEN <<1>>
        ELSE <<w>>

-----------------------------------------------------------------------------
(* The inputs the model runs on *)

TS1 == [s |-> 1541106106, ms |-> 796]    \* 2018-11-01 21:01:46.796 UTC, a Thursday
TS2 == [s |-> 1577694615, ms |-> 0]      \* 2019-12-30 08:30:15 UTC, ISO week 1 of 2020

\* a song record that carries every field the queries name
FullSong(sid, aid, name) ==
    [song_id |-> sid, title |-> <<"T1">>, artist_id |-> aid, artist_name |-> name,
     artist_location |-> <<"NY">>, artist_latitude |-> <<40>>,
     artist_longitude |-> <<-74>>, year |-> <<2000>>, duration |-> <<200>>]

\* the song record of the end-to-end scenario: it has no artist_location,
\* artist_latitude or artist_longitude field
ScenarioSong ==
    [song_id |-> <<"S1">>, title |-> <<"T1">>, artist_id |-> <<"A1">>,
     artist_name |-> <<"ArtistX">>, year |-> <<2000>>, duration |-> <<200>>]

SongRecords ==
    { FullSong(<<"S1">>, <<"A1">>, <<"ArtistX">>),
      FullSong(<<"S1">>, <<"A1">>, <<"ArtistY">>),
      FullSong(NULL,     <<"A1">>, <<"ArtistX">>),
      FullSong(<<"S1">>, NULL,     <<"ArtistX">>),
      ScenarioSong }

\* a log record that carries every field the queries name
FullLog(page, song, uid, ts, session) ==
    [page |-> <<page>>, artist |-> <<"ArtistX">>, song |-> <<song>>, userId |-> uid,
     firstName |-> <<"Ann">>, lastName |-> <<"Lee">>, gender |-> <<"F">>,
     level |-> <<"free">>, ts |-> ts, sessionId |-> <<session>>,
     location |-> <<"NY">>, userAgent |-> <<"UA">>]

\* the log record of the end-to-end scenario: it has no firstName, lastName
\* or gender field
ScenarioLog ==
    [page |-> <<"NextSong">>, artist |-> <<"ArtistX">>, song |-> <<"T1">>,
     userId |-> <<"7">>, ts |-> <<TS1>>, sessionId |-> <<1>>, level |-> <<"free">>,
     location |-> <<"NY">>, userAgent |-> <<"UA">>]

LogRecords ==
    { FullLog("NextSong", "T1", <<"7">>, <<TS1>>, 1),
      FullLog("NextSong", "T2", <<"7">>, <<TS1>>, 2),
      FullLog("NextSong", "T1", NULL,    <<TS2>>, 3),
      FullLog("NextSong", "T1", <<"7">>, NULL,    4),
      FullLog("Home",     "T1", <<"7">>, <<TS1>>, 5),
      ScenarioLog }

-----------------------------------------------------------------------------
(* The five queries *)

SongsColumns == {"song_id", "title", "artist_id", "year", "duration"}

\* the songs query with the WHERE clause of the artists query
SongsQueryArtistFilter(view) ==
    LET Select(r) == [song_id |-> r.song_id, title |-> r.title,
                      artist_id |-> r.artist_id, year |-> r.year,
                      duration |-> r.duration]
        not_null == {r \in BagToSet(view.rows) : r.artist_id # NULL}
    IN  BagOfAll(Select, Where(view.rows, not_null))

SongsQuery(view) ==
    LET Select(r) == [song_id |-> r.song_id, title |-> r.title,
                      artist_id |-> r.artist_id, year |-> r.year,
                      duration |-> r.duration]
        not_null == {r \in BagToSet(view.rows) : r.song_id # NULL}
    IN  BagOfAll(Select, Where(view.rows, not_null))

ArtistsColumns == {"artist_id", "artist_name", "artist_location",
                   "artist_latitude", "artist_longitude"}

ArtistsQuery(view) ==
    LET Select(r) == [artist_id |-> r.artist_id, artist_name |-> r.artist_name,
                      artist_location |-> r.artist_location,
                      artist_latitude |-> r.artist_latitude,
                      artist_longitude |-> r.artist_longitude]
        not_null == {r \in BagToSet(view.rows) : r.artist_id # NULL}
    IN  Distinct(BagOfAll(Select, Where(view.rows, not_null)))

UsersColumns == {"userId", "firstName", "lastName", "gender", "level"}

\* the users query without its WHERE clause
UsersQueryNoFilter(view) ==
    LET Select(r) == [user_id |-> r.userId, first_name |-> r.firstName,
                      last_name |-> r.lastName, gender |-> r.gender,
                      level |-> r.level]
    IN  Distinct(BagOfAll(Select, view.rows))

UsersQuery(view) ==
    LET Select(r) == [user_id |-> r.userId, first_name |-> r.firstName,
                      last_name |-> r.lastName, gender |-> r.gender,
                      level |-> r.level]
        not_null == {r \in BagToSet(view.rows) : r.userId # NULL}
    IN  Distinct(BagOfAll(Select, Where(view.rows, not_null)))

TimeColumns == {"ts"}

\* the time query without the WHERE clause of its subquery
TimeQueryNoFilter(view) ==
    LET Inner(r) == [time |-> to_timestamp(r.ts)]
        Select(r) == [start_time |-> r.time,
                      hour |-> hour(r.time),
                      day |-> dayofmonth(r.time),
                      week |-> weekofyear(r.time),
                      month |-> month(r.time),
                      year |-> year(r.time),
                      weekday |-> dayofweek(r.time)]
    IN  BagOfAll(Select, BagOfAll(Inner, view.rows))

TimeQuery(view) ==
    LET Inner(r) == [time |-> to_timestamp(r.ts)]
        not_null == {r \in BagToSet(view.rows) : r.ts # NULL}
        temp == BagOfAll(Inner, Where(view.rows, not_null))
        Select(r) == [start_time |-> r.time,
                      hour |-> hour(r.time),
                      day |-> dayofmonth(r.time),
                      week |-> weekofyear(r.time),
                      month |-> month(r.time),
                      year |-> year(r.time),
                      weekday |-> dayofweek(r.time)]
    IN  BagOfAll(Select, temp)

\* the relations of the songplays query's FROM clause: alias -> temp view
SongplaysFrom == [log |-> "log_data_table", song |-> "song_data_table"]

\* the qualified columns the songplays query names
SongplaysColumns ==
    { <<"logT", "ts">>, <<"log", "ts">>, <<"log", "userId">>, <<"log", "level">>,
      <<"song", "song_id">>, <<"song", "artist_id">>, <<"log", "sessionId">>,
      <<"log", "location">>, <<"log", "userAgent">>, <<"log", "artist">>,
      <<"song", "artist_name">>, <<"log", "song">>, <<"song", "title">> }

\* Spark's analysis of qualified names: the qualifier has to be an alias of
\* the FROM clause and the column a column of that relation (the inputs hold
\* no struct column, so a qualifier is never a column with a field)
Resolves(columns, from, views) ==
    \A c \in columns :
        /\ c[1] \in DOMAIN from
        /\ c[2] \in views[from[c[1]]].cols

\* monotonically_increasing_id(): ascending ids in the order the engine
\* emits the rows, here 0, 1, 2, ... over one partition
RECURSIVE WithIds(_, _)
WithIds(rows, n) ==
    IF rows = EmptyBag THEN EmptyBag
    ELSE LET r == CHOOSE x \in BagToSet(rows) : TRUE
             Id(x) == [songplay_id |-> <<n>>] @@ x
         IN  SetToBag({Id(r)}) (+) WithIds(rows (-) SetToBag({r}), n + 1)

SongplaysQuery(log, song) ==
    LET pairs == {p \in BagToSet(log.rows) \X BagToSet(song.rows) :
                    /\ p[1].artist # NULL /\ p[1].artist = p[2].artist_name
                    /\ p[1].song # NULL /\ p[1].song = p[2].title}
        joined == [p \in pairs |-> log.rows[p[1]] * song.rows[p[2]]]
        Select(p) == [start_time |-> to_timestamp(p[1].ts),
                      month |-> month(to_timestamp(p[1].ts)),
                      year |-> year(to_timestamp(p[1].ts)),
                      user_id |-> p[1].userId, level |-> p[1].level,
                      song_id |-> p[2].song_id, artist_id |-> p[2].artist_id,
                      session_id |-> p[1].sessionId, location |-> p[1].location,
                      user_agent |-> p[1].userAgent]
    IN  WithIds(BagOfAll(Select, joined), 0)

-----------------------------------------------------------------------------
(* Control flow of main() *)

\* the statements of a run in the order main() executes them: the two of
\* process_song_data after its read, then those of process_log_data
Statements ==
    << "read_song_data", "songs_table", "artists_table",
       "read_log_data", "users_table", "time_table", "song_df",
       "songplays_table", "done" >>

Stage1 == {"read_song_data", "songs_table", "artists_table"}
Stage2 == {"read_log_data", "users_table", "time_table", "song_df",
           "songplays_table"}

\* the two writes of process_song_data in the other order
AfterSwapped(p) ==
    CASE p = "read_song_data" -> "artists_table"
      [] p = "artists_table" -> "songs_table"
      [] p = "songs_table" -> "read_log_data"
      [] OTHER -> LET i == CHOOSE k \in 1..Len(Statements) : Statements[k] = p
                  IN  Statements[i + 1]

\* the statement that follows statement p
After(p) ==
    LET i == CHOOSE k \in 1..Len(Statements) : Statements[k] = p
    IN  Statements[i + 1]

\* a main() that catches what process_song_data raises and goes on
PropagateSwallowed(p) == IF p \in Stage1 THEN "read_log_data" ELSE "failed"

\* where control goes when statement p raises: neither stage function nor
\* main() catches anything, so the exception ends the process
Propagate(p) == "failed"

Tables ==
    [songs_table |-> songs_table, artists_table |-> artists_table,
     users_table |-> users_table, time_table |-> time_table,
     songplays_table |-> songplays_table]

Ended == pc \in {"done", "failed"}

Raise(kind) ==
    /\ pc' = Propagate(pc)
    /\ error' = kind
    /\ failed_at' = pc

Init ==
    /\ song_data \in BagsUpTo(SongRecords, MaxSongRecords)
    /\ log_data \in BagsUpTo(LogRecords, MaxLogRecords)
    /\ songs_table = EmptyBag
    /\ artists_table = EmptyBag
    /\ users_table = EmptyBag
    /\ time_table = EmptyBag
    /\ songplays_table = EmptyBag
    /\ song_data_table = NoFrame
    /\ log_data_table = NoFrame
    /\ song_df = EmptyBag
    /\ pc = "read_song_data"
    /\ error = "none"
    /\ failed_at = "none"
    /\ written = {}
    /\ before = Tables
    /\ rerun = FALSE
    /\ first = [tables |-> Tables, error |-> "none", failed_at |-> "none"]

\* df = spark.read.json(song_data); df.createOrReplaceTempView(...)
ReadSongData ==
    /\ pc = "read_song_data"
    /\ song_data_table' = read_json(song_data)
    /\ pc' = After(pc)
    /\ UNCHANGED <<song_data, log_data, songs_table, artists_table, users_table,
                   time_table, songplays_table, log_data_table, song_df, error,
                   failed_at, written, before, rerun, first>>

\* songs_table = spark.sql(...); songs_table.write.mode('overwrite')...
SongsTable ==
    /\ pc = "songs_table"
    /\ IF SongsColumns \subseteq song_data_table.cols
       THEN /\ songs_table' = Overwrite(songs_table, SongsQuery(song_data_table))
            /\ written' = written \cup {"songs_table"}
            /\ pc' = After(pc)
            /\ UNCHANGED <<error, failed_at>>
       ELSE /\ Raise("AnalysisException")
            /\ UNCHANGED <<songs_table, written>>
    /\ UNCHANGED <<song_data, log_data, artists_table, users_table, time_table,
                   songplays_table, song_data_table, log_data_table, song_df,
                   before, rerun, first>>

\* artists_table = spark.sql(...); artists_table.write.mode('overwrite')...
ArtistsTable ==
    /\ pc = "artists_table"
    /\ IF ArtistsColumns \subseteq song_data_table.cols
       THEN /\ artists_table' = Overwrite(artists_table, ArtistsQuery(song_data_table))
            /\ written' = written \cup {"artists_table"}
            /\ pc' = After(pc)
            /\ UNCHANGED <<error, failed_at>>
       ELSE /\ Raise("AnalysisException")
            /\ UNCHANGED <<artists_table, written>>
    /\ UNCHANGED <<song_data, log_data, songs_table, users_table, time_table,
                   songplays_table, song_data_table, log_data_table, song_df,
                   before, rerun, first>>

\* df = spark.read.json(log_path); df = df.filter(df.page == 'NextSong');
\* df.createOrReplaceTempView(...).  df.page raises when no record has a page
ReadLogData ==
    /\ pc = "read_log_data"
    /\ LET df == read_json(log_data)
           next_song == {r \in BagToSet(df.rows) : r.page = <<"NextSong">>}
       IN  IF "page" \in df.cols
           THEN /\ log_data_table' = [cols |-> df.cols, rows |-> Where(df.rows, next_song)]
                /\ pc' = After(pc)
                /\ UNCHANGED <<error, failed_at>>
           ELSE /\ Raise("AttributeError")
                /\ UNCHANGED log_data_table
    /\ UNCHANGED <<song_data, log_data, songs_table, artists_table, users_table,
                   time_table, songplays_table, song_data_table, song_df,
                   written, before, rerun, first>>

\* users_table = spark.sql(...); users_table.write.mode('overwrite')...
UsersTable ==
    /\ pc = "users_table"
    /\ IF UsersColumns \subseteq log_data_table.cols
       THEN /\ users_table' = Overwrite(users_table, UsersQuery(log_data_table))
            /\ written' = written \cup {"users_table"}
            /\ pc' = After(pc)
            /\ UNCHANGED <<error, failed_at>>
       ELSE /\ Raise("AnalysisException")
            /\ UNCHANGED <<users_table, written>>
    /\ UNCHANGED <<song_data, log_data, songs_table, artists_table, time_table,
                   songplays_table, song_data_table, log_data_table, song_df,
                   before, rerun, first>>

\* time_table = spark.sql(...); time_table.write.mode('overwrite')...
TimeTable ==
    /\ pc = "time_table"
    /\ IF TimeColumns \subseteq log_data_table.cols
       THEN /\ time_table' = Overwrite(time_table, TimeQuery(log_data_table))
            /\ written' = written \cup {"time_table"}
            /\ pc' = After(pc)
            /\ UNCHANGED <<error, failed_at>>
       ELSE /\ Raise("AnalysisException")
            /\ UNCHANGED <<time_table, written>>
    /\ UNCHANGED <<song_data, log_data, songs_table, artists_table, users_table,
                   songplays_table, song_data_table, log_data_table, song_df,
                   before, rerun, first>>

\* song_df = spark.read.parquet(output_data+'songs_table/')
ReadSongsTable ==
    /\ pc = "song_df"
    /\ song_df' = songs_table
    /\ pc' = After(pc)
    /\ UNCHANGED <<song_data, log_data, songs_table, artists_table, users_table,
                   time_table, songplays_table, song_data_table, log_data_table,
                   error, failed_at, written, before, rerun, first>>

\* the temp views of the session, by name
Views == [song_data_table |-> song_data_table, log_data_table |-> log_data_table]

\* songplays_table = spark.sql(...); songplays_table.write.mode('overwrite')...
\* The query joins the temp views its FROM clause names; song_df is not used.
SongplaysTable ==
    /\ pc = "songplays_table"
    /\ IF Resolves(SongplaysColumns, SongplaysFrom, Views)
       THEN /\ songplays_table' =
                   Overwrite(songplays_table,
                             SongplaysQuery(Views[SongplaysFrom.log],
                                            Views[SongplaysFrom.song]))
            /\ written' = written \cup {"songplays_table"}
            /\ pc' = After(pc)
            /\ UNCHANGED <<error, failed_at>>
       ELSE /\ Raise("AnalysisException")
            /\ UNCHANGED <<songplays_table, written>>
    /\ UNCHANGED <<song_data, log_data, songs_table, artists_table, users_table,
                   time_table, song_data_table, log_data_table, song_df,
                   before, rerun, first>>

\* a read of the input or a write of an output fails in the storage layer:
\* the statement raises before it has changed anything
StorageFailure ==
    /\ pc \in Stage1 \cup Stage2
    /\ Raise("StorageError")
    /\ UNCHANGED <<song_data, log_data, songs_table, artists_table, users_table,
                   time_table, songplays_table, song_data_table, log_data_table,
                   song_df, written, before, rerun, first>>

\* the program is run once more on the same inputs: a new process and a new
\* session, the outputs of the first run still in storage
Rerun ==
    /\ Ended
    /\ ~rerun
    /\ rerun' = TRUE
    /\ first' = [tables |-> Tables, error |-> error, failed_at |-> failed_at]
    /\ before' = Tables
    /\ pc' = "read_song_data"
    /\ error' = "none"
    /\ failed_at' = "none"
    /\ written' = {}
    /\ song_data_table' = NoFrame
    /\ log_data_table' = NoFrame
    /\ song_df' = EmptyBag
    /\ UNCHANGED <<song_data, log_data, songs_table, artists_table, users_table,
                   time_table, songplays_table>>

Next ==
    \/ ReadSongData
    \/ SongsTable
    \/ ArtistsTable
    \/ ReadLogData
    \/ UsersTable
    \/ TimeTable
    \/ ReadSongsTable
    \/ SongplaysTable
    \/ StorageFailure
    \/ Rerun

Spec == Init /\ [][Next]_vars

-----------------------------------------------------------------------------
(* Properties *)

\* the cell of field c in the JSON record s, NULL when s has no such field
CellOf(s, c) == IF c \in DOMAIN s THEN s[c] ELSE NULL

\* the number of rows of table B that are in the set keep
CountWhere(B, keep) == BagCardinality(Where(B, keep))

\* the run ended, and not because storage failed under it
RanToItsEnd == Ended /\ error # "StorageError"

\* the run ended at its last statement, the one that computes and writes
\* Songplays: every statement before it succeeded
SongplaysDecided ==
    pc = "done" \/ (pc = "failed" /\ failed_at = "songplays_table")

\* the inputs of the end-to-end scenario, each record also carrying the
\* fields of the other columns the queries select
ScenarioInput ==
    /\ song_data = SetToBag({FullSong(<<"S1">>, <<"A1">>, <<"ArtistX">>)})
    /\ log_data = SetToBag({FullLog("NextSong", "T1", <<"7">>, <<TS1>>, 1)})

\* C1: a run on the scenario's one song record and one log record ends with
\* exactly one Songplays row, with song_id S1, artist_id A1, user_id 7,
\* year 2018 and month 11.
C1_EndToEnd ==
    (ScenarioInput /\ SongplaysDecided) =>
        /\ BagCardinality(songplays_table) = 1
        /\ \A r \in BagToSet(songplays_table) :
              /\ r.song_id = <<"S1">>
              /\ r.artist_id = <<"A1">>
              /\ r.user_id = <<"7">>
              /\ r.year = <<2018>>
              /\ r.month = <<11>>

\* log record l is a NextSong event whose (artist, song) is the
\* (artist_name, title) of some song record
Matches(l) ==
    /\ l.page = <<"NextSong">>
    /\ \E s \in BagToSet(song_data) :
          /\ l.artist # NULL /\ l.artist = s.artist_name
          /\ l.song # NULL /\ l.song = s.title

\* C2: after a run, Songplays holds a row for a log record (the row of its
\* session) if and only if the record is a NextSong event that matches a song
\* record.
C2_SongplaysIffMatch ==
    SongplaysDecided =>
        \A l \in BagToSet(log_data) :
            (\E r \in BagToSet(songplays_table) : r.session_id = l.sessionId)
                <=> Matches(l)

\* the Songs row that the song record s projects to
SongsRowOf(s) ==
    [song_id |-> s.song_id, title |-> s.title, artist_id |-> s.artist_id,
     year |-> s.year, duration |-> s.duration]

\* C3 as stated: once Songs is written, every song record with a non-null
\* song_id has exactly one Songs row, and no two Songs rows share a song_id.
C3_SongIdUnique ==
    "songs_table" \in written =>
        /\ \A s \in BagToSet(song_data) :
              s.song_id # NULL => CopiesIn(SongsRowOf(s), songs_table) = 1
        /\ \A r \in BagToSet(songs_table) :
              LET same_id == {x \in BagToSet(songs_table) : x.song_id = r.song_id}
              IN  CountWhere(songs_table, same_id) = 1

\* C3 as amended: once Songs is written it holds one row per song record
\* with a non-null song_id, copies included, and nothing else: a row occurs
\* as many times as there are such records that project to it.
C3_SongsRowPerRecord ==
    "songs_table" \in written =>
        /\ \A s \in BagToSet(song_data) :
              LET same_row == {x \in BagToSet(song_data) :
                                 x.song_id # NULL /\ SongsRowOf(x) = SongsRowOf(s)}
              IN  s.song_id # NULL =>
                    CopiesIn(SongsRowOf(s), songs_table) = CountWhere(song_data, same_row)
        /\ \A r \in BagToSet(songs_table) :
              \E s \in BagToSet(song_data) : s.song_id # NULL /\ r = SongsRowOf(s)

\* Songs is written from two song records that share a song_id
C3_Witness ==
    /\ "songs_table" \in written
    /\ \E r \in BagToSet(songs_table) : CopiesIn(r, songs_table) = 2

\* the Artists row that the song record s projects to
ArtistsRowOf(s) ==
    [artist_id |-> s.artist_id, artist_name |-> s.artist_name,
     artist_location |-> CellOf(s, "artist_location"),
     artist_latitude |-> CellOf(s, "artist_latitude"),
     artist_longitude |-> CellOf(s, "artist_longitude")]

\* C4 as stated: no two Artists rows share an artist_id and differ in
\* another column.
C4_ArtistIdUnique ==
    \A r1, r2 \in BagToSet(artists_table) :
        r1.artist_id = r2.artist_id => r1 = r2

\* C4 as amended: once Artists is written, its rows are unique as whole
\* rows: every combination of the five columns found in a song record with a
\* non-null artist_id is there exactly once, and nothing else is.
C4_ArtistsDistinctRows ==
    "artists_table" \in written =>
        /\ \A s \in BagToSet(song_data) :
              s.artist_id # NULL => CopiesIn(ArtistsRowOf(s), artists_table) = 1
        /\ \A r \in BagToSet(artists_table) :
              \E s \in BagToSet(song_data) : s.artist_id # NULL /\ r = ArtistsRowOf(s)

\* Artists is written from two song records that project to the same row,
\* or holds two rows of one artist_id
C4_Witness ==
    /\ "artists_table" \in written
    /\ \E s \in BagToSet(song_data) : s.artist_id # NULL /\ song_data[s] = 2
    /\ Cardinality(BagToSet(artists_table)) = 1

\* log record l is a NextSong event with a timestamp
Timed(l) == l.page = <<"NextSong">> /\ l.ts # NULL

\* C5 as stated: Time holds exactly one row per distinct timestamp of the
\* NextSong log records with non-null ts.
C5_TimeRowPerDistinctTs ==
    "time_table" \in written =>
        /\ \A l \in BagToSet(log_data) :
              Timed(l) => \E r \in BagToSet(time_table) :
                              r.start_time = to_timestamp(l.ts)
        /\ \A r \in BagToSet(time_table) :
              LET same_time == {x \in BagToSet(time_table) : x.start_time = r.start_time}
              IN  CountWhere(time_table, same_time) = 1

\* C5 as amended: once Time is written it holds one row per NextSong log
\* record with non-null ts, copies included: a start_time occurs as many
\* times as there are such records with that ts, and no other row is there.
C5_TimeRowPerRecord ==
    "time_table" \in written =>
        /\ \A l \in BagToSet(log_data) :
              LET same_time == {x \in BagToSet(time_table) :
                                  x.start_time = to_timestamp(l.ts)}
                  same_ts == {x \in BagToSet(log_data) : Timed(x) /\ x.ts = l.ts}
              IN  Timed(l) =>
                    CountWhere(time_table, same_time) = CountWhere(log_data, same_ts)
        /\ BagCardinality(time_table) =
              CountWhere(log_data, {x \in BagToSet(log_data) : Timed(x)})

\* Time is written from two NextSong log records with the same ts
C5_Witness ==
    /\ "time_table" \in written
    /\ \E r \in BagToSet(time_table) : CopiesIn(r, time_table) = 2

\* a Songplays table without its songplay_id column
WithoutIds(B) ==
    LET Strip(r) == [c \in DOMAIN r \ {"songplay_id"} |-> r[c]]
    IN  BagOfAll(Strip, B)

Stage2Tables == {"users_table", "time_table", "songplays_table"}

\* C7: the Event-Log Stage is not in progress, and has written nothing,
\* unless the Song-Catalog Stage has written both Songs and Artists in this
\* run; and after a failure in the Song-Catalog Stage the Event-Log Stage has
\* not started: its view does not exist and its three tables are untouched.
C7_StageOrder ==
    /\ (pc \in Stage2 \/ failed_at \in Stage2 \/ written \cap Stage2Tables # {}
            \/ log_data_table # NoFrame)
          => {"songs_table", "artists_table"} \subseteq written
    /\ failed_at \in Stage1 =>
          /\ pc \notin Stage2 \cup {"done"}
          /\ written \cap Stage2Tables = {}
          /\ log_data_table = NoFrame
          /\ users_table = before.users_table
          /\ time_table = before.time_table
          /\ songplays_table = before.songplays_table

\* the Song-Catalog Stage failed after it had written Songs, with log
\* records waiting to be processed
C7_Witness ==
    /\ pc = "failed"
    /\ failed_at = "artists_table"
    /\ songs_table # EmptyBag
    /\ log_data # EmptyBag

\* C8: Songs holds no row with a null song_id, Artists none with a null
\* artist_id and Users none with a null user_id.
C8_NoNullKeys ==
    /\ \A r \in BagToSet(songs_table) : r.song_id # NULL
    /\ \A r \in BagToSet(artists_table) : r.artist_id # NULL
    /\ \A r \in BagToSet(users_table) : r.user_id # NULL

\* the three tables are written, with rows, from inputs that hold a song
\* record without song_id, one without artist_id and a NextSong log record
\* without userId
C8_Witness ==
    /\ {"songs_table", "artists_table", "users_table"} \subseteq written
    /\ songs_table # EmptyBag /\ artists_table # EmptyBag /\ users_table # EmptyBag
    /\ \E s \in BagToSet(song_data) : s.song_id = NULL
    /\ \E s \in BagToSet(song_data) : s.artist_id = NULL
    /\ \E l \in BagToSet(log_data) : l.page = <<"NextSong">> /\ l.userId = NULL

\* C9: when the Songplays query is issued, the relation on the song side of
\* its join holds the rows of the Songs table as re-read from storage.
C9_JoinReadsPersistedSongs ==
    pc = "songplays_table" => Views[SongplaysFrom.song].rows = song_df

\* the tables in the order their statements come in a run
TableOrder ==
    << "songs_table", "artists_table", "users_table", "time_table",
       "songplays_table" >>

\* the place of statement p in a run
Place(p) == CHOOSE k \in 1..Len(Statements) : Statements[k] = p

\* what this run's queries give for table t on this run's inputs
ThisRun(t) ==
    LET songs == read_json(song_data)
        df == read_json(log_data)
        next_song == {r \in BagToSet(df.rows) : r.page = <<"NextSong">>}
        logs == [cols |-> df.cols, rows |-> Where(df.rows, next_song)]
    IN  CASE t = "songs_table" -> SongsQuery(songs)
          [] t = "artists_table" -> ArtistsQuery(songs)
          [] t = "users_table" -> UsersQuery(logs)
          [] t = "time_table" -> TimeQuery(logs)
          [] t = "songplays_table" -> SongplaysQuery(logs, songs)

====
